---------------------------- MODULE Spec2Model ----------------------------
(***************************************************************************)
(* Model of src/dictation.py: the DictationApp session controller          *)
(* (start_recording / stop_recording / _cleanup_session, the hotkey        *)
(* dispatch of on_press and the exit path of main) and the transcript      *)
(* handlers on_partial_transcript / on_committed_transcript.               *)
(*                                                                         *)
(* Everything except on_press runs on one asyncio event loop, so every     *)
(* action below is one run of a coroutine from one suspension point        *)
(* (await) to the next.  Handles are named by the session that created     *)
(* them: channel h / audio stream h is the one opened by the start call    *)
(* that took session_id = h; 0 stands for None.                            *)
(*                                                                         *)
(* Specifications:                                                         *)
(*   Spec       the controller with the failures of connect, audio open    *)
(*              and every teardown step                                    *)
(*   SpecExit   Spec with the failures of start_stream and of the abort's  *)
(*              close, and the exit path of main                           *)
(*   SpecAbort  the controller with one more session and the connect       *)
(*              failure only                                               *)
(*   SpecEvents the controller without failures, its channels delivering   *)
(*              transcript events                                          *)
(*   SpecRelay  the controller without failures of start or teardown, the  *)
(*              audio feeds and the sender tasks                           *)
(*   SpecLive   the controller without failures, under fair scheduling     *)
(*   SpecRelayOverlap  SpecRelay with one more session                     *)
(*   SpecText   the transcript handlers alone, over every raw text         *)
(*   SpecConfig Spec started with or without the API credential            *)
(***************************************************************************)
EXTENDS Naturals, Integers, Sequences, FiniteSets, TLC

\* ------------------------------------------------------------------ bounds
\* Number of start_recording calls that may pass the guard in one run.
MaxSessions == 2
\* Number of coroutines scheduled by on_press and not yet run by the loop.
MaxPending == 2
\* Longest raw transcript text of SpecText.
MaxLen == 2
\* Number of audio frames self.audio_queue may hold.
MaxFrames == 1
\* Number of start_recording calls that may pass the guard in SpecRelay.
MaxRelaySessions == 1

None == 0
Sessions == 1..MaxSessions
\* Every session a specification can start (SpecAbort starts one more).
Slots == 1..(MaxSessions + 1)
\* The sessions SpecRelay starts.
RelaySessions == 1..MaxRelaySessions
\* The sessions SpecRelayOverlap starts.
RelaySlots == 1..(MaxRelaySessions + 1)

\* ------------------------------------------------------------------- texts
\* A text is a sequence of characters; " " is the whitespace character.
Chars == {"a", "b", " "}
Whitespace == {" "}

RECURSIVE TextsOfLen(_)
TextsOfLen(n) ==
    IF n = 0 THEN {<<>>}
    ELSE {Append(t, c) : t \in TextsOfLen(n - 1), c \in Chars}

\* Raw event texts of SpecText: every text up to MaxLen.
RawTexts == UNION {TextsOfLen(n) : n \in 0..MaxLen}

\* Raw event texts a channel delivers in SpecEvents.
SessionTexts == {<<"a">>, <<"b">>}

\* str.strip(): drop leading and trailing whitespace.
RECURSIVE LStrip(_)
LStrip(t) ==
    IF t # <<>> /\ Head(t) \in Whitespace THEN LStrip(Tail(t)) ELSE t

RECURSIVE RStrip(_)
RStrip(t) ==
    IF t # <<>> /\ t[Len(t)] \in Whitespace
    THEN RStrip(SubSeq(t, 1, Len(t) - 1))
    ELSE t

Strip(t) == RStrip(LStrip(t))

\* str.startswith(prefix)
StartsWith(t, prefix) ==
    /\ Len(prefix) <= Len(t)
    /\ SubSeq(t, 1, Len(prefix)) = prefix

\* t[n:]
DropFirst(t, n) == SubSeq(t, n + 1, Len(t))

\* An output action of one handler run: bs backspaces, then typed typed by
\* keyboard_controller.type, pasted pasted through the clipboard.
NoOutput == [bs |-> 0, typed |-> <<>>, pasted |-> <<>>]
Keys(n, t) == [bs |-> n, typed |-> t, pasted |-> <<>>]
Paste(t) == [bs |-> 0, typed |-> <<>>, pasted |-> t]

VARIABLES
    is_recording,       \* self.is_recording
    audio_stream,       \* self.audio_stream (a handle, 0 = None)
    connection,         \* self.connection (a handle, 0 = None)
    last_partial_text,  \* self.last_partial_text
    session_id,         \* self.session_id
    mode,               \* self.mode
    api_key,            \* ELEVENLABS_API_KEY is set in the environment
    loopQueue,          \* coroutines on_press scheduled, not yet run
    startTask,          \* per session: where its start_recording coroutine is
    chan,               \* per channel handle: "none", "open" or "closed"
    committed,          \* channel handles a commit was sent on
    audioSt,            \* per audio handle: "none", "open" or "closed"
    cleanup,            \* per stopped session: its _cleanup_session task
    exited,             \* main has returned
    exitStopped,        \* the session the exit path stopped (0: none)
    out,                \* what the last transcript handler run emitted
    lastEvent,          \* the kind of event the last transcript handler run was given, and whether it ignored it
    surface,            \* the text the emitted output actions have left on the output surface, up to the first Committed event
    seq,                \* the events handled so far: "partials", then "committed", then "over"
    relay,              \* per session: its send_audio_chunks task
    audio_queue,        \* self.audio_queue: frames, each named by the feed that produced it
    sendFailure,        \* the first sender task a send of which raised, and whether it forwarded a frame since
    calls,              \* the controller calls since the last stop_recording call, that call first
    winConnects,        \* channel connects the start_recording calls among them performed
    winFailed           \* a start attempt failed since the last stop_recording call

ctl == <<is_recording, audio_stream, connection, last_partial_text, session_id>>
win == <<calls, winConnects, winFailed>>
txt == <<out, lastEvent, surface, seq>>
rly == <<relay, audio_queue, sendFailure>>
vars == <<is_recording, audio_stream, connection, last_partial_text, session_id,
          mode, api_key, loopQueue, startTask, chan, committed, audioSt,
          cleanup, exited,
          exitStopped, out, lastEvent, surface, seq, relay, audio_queue,
          sendFailure, calls, winConnects, winFailed>>

NoCleanup == [pc |-> "none", audio |-> None, conn |-> None]
NoRelay == [pc |-> "none", frame |-> None, conn |-> None]
NoSendFailure == [relay |-> None, resumed |-> FALSE]
NoEvent == [kind |-> "none", ignored |-> FALSE]

\* The fields DictationApp.__init__(mode = m) sets, with nothing scheduled,
\* opened or emitted yet.
Constructed(m) ==
    /\ is_recording = FALSE
    /\ audio_stream = None
    /\ connection = None
    /\ last_partial_text = <<>>
    /\ session_id = 0
    /\ mode = m
    /\ loopQueue = <<>>
    /\ startTask = [s \in Slots |-> "none"]
    /\ chan = [s \in Slots |-> "none"]
    /\ committed = {}
    /\ audioSt = [s \in Slots |-> "none"]
    /\ cleanup = [s \in Slots |-> NoCleanup]
    /\ exitStopped = None
    /\ out = NoOutput
    /\ lastEvent = NoEvent
    /\ surface = <<>>
    /\ seq = "partials"
    /\ relay = [s \in Slots |-> NoRelay]
    /\ audio_queue = <<>>
    /\ sendFailure = NoSendFailure
    /\ calls = "none"
    /\ winConnects = 0
    /\ winFailed = FALSE

\* The construction going on without the credential.
InitWith_NoCredentialCheck(m, k) ==
    /\ api_key = k
    /\ exited = FALSE
    /\ Constructed(m)

\* main up to the start of the hotkey listener, with the credential set
\* (k) or not: DictationApp.__init__ calls sys.exit(1) when it is not, and
\* the process is over before the listener is created.
InitWith(m, k) ==
    /\ api_key = k
    /\ exited = ~k
    /\ Constructed(m)

\* DictationApp.__init__(mode = m) with the credential present.
InitMode(m) == InitWith(m, TRUE)

\* The mode argparse gives by default.
Init == InitMode("batch")

\* Either --mode.
InitAnyMode == \E m \in {"streaming", "batch"} : InitMode(m)

\* The default mode, the credential set or not.
InitConfig == \E k \in BOOLEAN : InitWith("batch", k)

\* ------------------------------------------------------------ hotkey thread
\* Number of start_recording coroutines scheduled and not yet run.
PendingStarts == Cardinality({i \in 1..Len(loopQueue) : loopQueue[i] = "start"})

\* on_press toggling app.is_recording itself, on the listener thread.
PressWithin_TogglesFlag(n) ==
    /\ ~exited
    /\ Len(loopQueue) < MaxPending
    /\ is_recording \/ session_id + PendingStarts < n
    /\ loopQueue' = Append(loopQueue, IF is_recording THEN "stop" ELSE "start")
    /\ is_recording' = ~is_recording
    /\ UNCHANGED <<audio_stream, connection, last_partial_text, session_id,
                   mode, api_key, startTask, chan, committed, audioSt, cleanup,
                   exited, exitStopped, txt, rly, win>>

\* on_press, the trigger branch: reads app.is_recording on the listener thread
\* and schedules one coroutine on the event loop.  The last conjunct of the
\* guard keeps session_id within n.
PressWithin(n) ==
    /\ ~exited
    /\ Len(loopQueue) < MaxPending
    /\ is_recording \/ session_id + PendingStarts < n
    /\ loopQueue' = Append(loopQueue, IF is_recording THEN "stop" ELSE "start")
    /\ UNCHANGED <<ctl, mode, api_key, startTask, chan, committed, audioSt, cleanup,
                   exited, exitStopped, txt, rly, win>>

Press == PressWithin(MaxSessions)

\* ---------------------------------------------------------- start_recording
\* start_recording with is_recording set only once the connect has returned.
StartRecording_FlagAfterConnect ==
    /\ calls' = IF calls \in {"start", "start_start"} THEN "start_start"
                ELSE "start"
    /\ IF is_recording
       THEN UNCHANGED <<ctl, startTask, winConnects>>
       ELSE /\ last_partial_text' = <<>>
            /\ session_id' = session_id + 1
            /\ startTask' = [startTask EXCEPT ![session_id + 1] = "connect"]
            /\ winConnects' = winConnects + 1
            /\ UNCHANGED <<is_recording, audio_stream, connection>>

\* start_recording numbering the first session only: later sessions take
\* its number again.
StartRecording_ReusesSessionId ==
    /\ calls' = IF calls \in {"start", "start_start"} THEN "start_start"
                ELSE "start"
    /\ IF is_recording
       THEN UNCHANGED <<ctl, startTask, winConnects>>
       ELSE LET n == IF session_id >= 1 THEN session_id
                     ELSE session_id + 1
            IN  /\ is_recording' = TRUE
                /\ last_partial_text' = <<>>
                /\ session_id' = n
                /\ startTask' = [startTask EXCEPT ![n] = "connect"]
                /\ winConnects' = winConnects + 1
                /\ UNCHANGED <<audio_stream, connection>>

\* start_recording from its call to its first suspension, the await of
\* realtime.connect: the guard, then is_recording, last_partial_text and
\* session_id are set and the connect is issued.
StartRecording ==
    /\ calls' = IF calls \in {"start", "start_start"} THEN "start_start"
                ELSE "start"
    /\ IF is_recording
       THEN UNCHANGED <<ctl, startTask, winConnects>>
       ELSE /\ is_recording' = TRUE
            /\ last_partial_text' = <<>>
            /\ session_id' = session_id + 1
            /\ startTask' = [startTask EXCEPT ![session_id + 1] = "connect"]
            /\ winConnects' = winConnects + 1
            /\ UNCHANGED <<audio_stream, connection>>

\* The event loop runs the next scheduled coroutine, a start_recording.
RunStart ==
    /\ ~exited
    /\ loopQueue # <<>>
    /\ Head(loopQueue) = "start"
    /\ loopQueue' = Tail(loopQueue)
    /\ StartRecording
    /\ UNCHANGED <<mode, api_key, chan, committed, audioSt, cleanup, exited,
                   exitStopped, txt, rly, winFailed>>

\* The connect of session s raises and the except branch returns without
\* clearing is_recording.
StartConnectFail_KeepsRecording(s) ==
    /\ ~exited
    /\ startTask[s] = "connect"
    /\ startTask' = [startTask EXCEPT ![s] = "connect_failed"]
    /\ winFailed' = TRUE
    /\ UNCHANGED <<ctl, mode, api_key, loopQueue, chan, committed, audioSt, cleanup,
                   exited, exitStopped, txt, rly, calls, winConnects>>

\* The connect of session s raises: the except branch clears is_recording.
StartConnectFail(s) ==
    /\ ~exited
    /\ startTask[s] = "connect"
    /\ startTask' = [startTask EXCEPT ![s] = "connect_failed"]
    /\ is_recording' = FALSE
    /\ winFailed' = TRUE
    /\ UNCHANGED <<audio_stream, connection, last_partial_text, session_id,
                   mode, api_key, loopQueue, chan, committed, audioSt, cleanup,
                   exited, exitStopped, txt, rly, calls, winConnects>>

\* The connect of session s returns: the handlers are registered,
\* self.connection is assigned, the audio stream is opened and started and
\* the sender task is created (it first runs once start_recording has
\* returned), with no suspension in between.
StartConnectedAudioOk(s) ==
    /\ ~exited
    /\ startTask[s] = "connect"
    /\ startTask' = [startTask EXCEPT ![s] = "done"]
    /\ chan' = [chan EXCEPT ![s] = "open"]
    /\ connection' = s
    /\ audio_stream' = s
    /\ audioSt' = [audioSt EXCEPT ![s] = "open"]
    /\ relay' = [relay EXCEPT ![s] = [NoRelay EXCEPT !.pc = "poll"]]
    /\ UNCHANGED <<is_recording, last_partial_text, session_id, mode, api_key,
                   loopQueue, committed, cleanup, exited, exitStopped, txt,
                   audio_queue, sendFailure, win>>

\* The connect of session s returns and the audio stream fails, either in
\* audio_interface.open (self.audio_stream is not assigned) or in
\* start_stream (it is assigned, and the stream stays open).  The except
\* branch then suspends in the await of self.connection.close().
StartConnectedAudioFail(s, at) ==
    /\ ~exited
    /\ startTask[s] = "connect"
    /\ startTask' = [startTask EXCEPT ![s] = "closing"]
    /\ chan' = [chan EXCEPT ![s] = "open"]
    /\ connection' = s
    /\ IF at = "start_stream"
       THEN /\ audio_stream' = s
            /\ audioSt' = [audioSt EXCEPT ![s] = "open"]
       ELSE UNCHANGED <<audio_stream, audioSt>>
    /\ winFailed' = TRUE
    /\ UNCHANGED <<is_recording, last_partial_text, session_id, mode, api_key,
                   loopQueue, committed, cleanup, exited, exitStopped, txt, rly,
                   calls, winConnects>>

\* The close awaited by the except branch returns: is_recording is cleared.
StartAbortClosed(s) ==
    /\ ~exited
    /\ startTask[s] = "closing"
    /\ startTask' = [startTask EXCEPT ![s] = "aborted"]
    /\ chan' = [chan EXCEPT ![s] = "closed"]
    /\ is_recording' = FALSE
    /\ winFailed' = TRUE
    /\ UNCHANGED <<audio_stream, connection, last_partial_text, session_id,
                   mode, api_key, loopQueue, committed, audioSt, cleanup, exited,
                   exitStopped, txt, rly, calls, winConnects>>

\* The close awaited by the except branch raises: the exception leaves
\* start_recording before is_recording is cleared.
StartAbortCloseRaises(s) ==
    /\ ~exited
    /\ startTask[s] = "closing"
    /\ startTask' = [startTask EXCEPT ![s] = "aborted"]
    /\ winFailed' = TRUE
    /\ UNCHANGED <<ctl, mode, api_key, loopQueue, chan, committed, audioSt, cleanup,
                   exited, exitStopped, txt, rly, calls, winConnects>>

\* ----------------------------------------------------------- stop_recording
\* The task stop_recording creates: _cleanup_session(old_audio_stream,
\* old_connection), not yet run.
StoppedCleanup ==
    [cleanup EXCEPT ![session_id] =
        [pc |-> "audio", audio |-> audio_stream, conn |-> connection]]

\* stop_recording that leaves is_recording set for the teardown to clear.
StopRecording_FlagClearedByTeardown ==
    /\ winConnects' = 0
    /\ winFailed' = FALSE
    /\ IF ~is_recording
       THEN /\ calls' = "stop_returned"
            /\ UNCHANGED <<ctl, cleanup>>
       ELSE /\ calls' = "stop_passed"
            /\ audio_stream' = None
            /\ connection' = None
            /\ cleanup' = StoppedCleanup
            /\ UNCHANGED <<is_recording, last_partial_text, session_id>>

\* stop_recording without its guard.
StopRecording_NoGuard ==
    /\ winConnects' = 0
    /\ winFailed' = FALSE
    /\ calls' = "stop_passed"
    /\ is_recording' = FALSE
    /\ audio_stream' = None
    /\ connection' = None
    /\ cleanup' = [s \in Slots |->
                     IF s = session_id
                     THEN [pc |-> "audio", audio |-> audio_stream,
                           conn |-> connection]
                     ELSE cleanup[s]]
    /\ UNCHANGED <<last_partial_text, session_id>>

\* stop_recording, which has no suspension point.
StopRecording ==
    /\ winConnects' = 0
    /\ winFailed' = FALSE
    /\ IF ~is_recording
       THEN /\ calls' = "stop_returned"
            /\ UNCHANGED <<ctl, cleanup>>
       ELSE /\ calls' = "stop_passed"
            /\ is_recording' = FALSE
            /\ audio_stream' = None
            /\ connection' = None
            /\ cleanup' = StoppedCleanup
            /\ UNCHANGED <<last_partial_text, session_id>>

\* The event loop runs the next scheduled coroutine, a stop_recording.
RunStop ==
    /\ ~exited
    /\ loopQueue # <<>>
    /\ Head(loopQueue) = "stop"
    /\ loopQueue' = Tail(loopQueue)
    /\ StopRecording
    /\ UNCHANGED <<mode, api_key, startTask, chan, committed, audioSt, exited,
                   exitStopped, txt, rly>>

\* --------------------------------------------------------- _cleanup_session
\* The teardown tasks that are neither finished nor absent.
InTeardown == {"audio", "commit", "close"}

\* The first run of the teardown reading self.audio_stream instead of the
\* stream it was handed.
CleanupAudio_LiveHandle(t, r) ==
    /\ ~exited
    /\ cleanup[t].pc = "audio"
    /\ LET a == audio_stream IN
       IF a = None
       THEN /\ r = "ok"
            /\ cleanup' = [cleanup EXCEPT ![t].pc = "commit"]
            /\ UNCHANGED audioSt
       ELSE CASE r = "ok" ->
                   /\ audioSt' = [audioSt EXCEPT ![a] = "closed"]
                   /\ cleanup' = [cleanup EXCEPT ![t].pc = "commit"]
              [] r = "raises" ->
                   /\ cleanup' = [cleanup EXCEPT ![t].pc = "done"]
                   /\ UNCHANGED audioSt
    /\ UNCHANGED <<ctl, mode, api_key, loopQueue, startTask, chan, committed, exited,
                   exitStopped, txt, rly, win>>

\* The first run of the teardown with the audio error caught around the
\* audio calls alone, so that the commit follows.
CleanupAudio_ErrorSwallowed(t, r) ==
    /\ ~exited
    /\ cleanup[t].pc = "audio"
    /\ LET a == cleanup[t].audio IN
       IF a = None
       THEN /\ r = "ok"
            /\ cleanup' = [cleanup EXCEPT ![t].pc = "commit"]
            /\ UNCHANGED audioSt
       ELSE CASE r = "ok" ->
                   /\ audioSt' = [audioSt EXCEPT ![a] = "closed"]
                   /\ cleanup' = [cleanup EXCEPT ![t].pc = "commit"]
              [] r = "raises" ->
                   /\ cleanup' = [cleanup EXCEPT ![t].pc = "commit"]
                   /\ UNCHANGED audioSt
    /\ UNCHANGED <<ctl, mode, api_key, loopQueue, startTask, chan, committed, exited,
                   exitStopped, txt, rly, win>>

\* First run of task t, up to the await of sleep(0.2): stop_stream and close
\* of the captured audio stream.  r is what the audio library does; when
\* stop_stream or close raises, the stream is not released and the outer
\* except branch ends the task.
CleanupAudio(t, r) ==
    /\ ~exited
    /\ cleanup[t].pc = "audio"
    /\ LET a == cleanup[t].audio IN
       IF a = None
       THEN /\ r = "ok"
            /\ cleanup' = [cleanup EXCEPT ![t].pc = "commit"]
            /\ UNCHANGED audioSt
       ELSE CASE r = "ok" ->
                   /\ audioSt' = [audioSt EXCEPT ![a] = "closed"]
                   /\ cleanup' = [cleanup EXCEPT ![t].pc = "commit"]
              [] r = "raises" ->
                   /\ cleanup' = [cleanup EXCEPT ![t].pc = "done"]
                   /\ UNCHANGED audioSt
    /\ UNCHANGED <<ctl, mode, api_key, loopQueue, startTask, chan, committed, exited,
                   exitStopped, txt, rly, win>>

\* The commit step with an except branch that resets the controller.
CleanupCommit_ErrorResetsController(t, r) ==
    /\ ~exited
    /\ cleanup[t].pc = "commit"
    /\ LET c == cleanup[t].conn IN
       IF c = None
       THEN /\ r = "ok"
            /\ cleanup' = [cleanup EXCEPT ![t].pc = "done"]
            /\ UNCHANGED <<committed, ctl>>
       ELSE CASE r = "ok" ->
                   /\ chan[c] = "open"
                   /\ committed' = committed \cup {c}
                   /\ cleanup' = [cleanup EXCEPT ![t].pc = "close"]
                   /\ UNCHANGED ctl
              [] r = "raises" ->
                   /\ cleanup' = [cleanup EXCEPT ![t].pc = "done"]
                   /\ is_recording' = FALSE
                   /\ connection' = None
                   /\ audio_stream' = None
                   /\ UNCHANGED <<committed, last_partial_text, session_id>>
    /\ UNCHANGED <<mode, api_key, loopQueue, startTask, chan, audioSt, exited,
                   exitStopped, txt, rly, win>>

\* After sleep(0.2): commit on the captured channel, up to the await of
\* sleep(0.5).  A commit is sent only on an open channel; when commit
\* raises, the inner except branch ends the task without the close.
CleanupCommit(t, r) ==
    /\ ~exited
    /\ cleanup[t].pc = "commit"
    /\ LET c == cleanup[t].conn IN
       IF c = None
       THEN /\ r = "ok"
            /\ cleanup' = [cleanup EXCEPT ![t].pc = "done"]
            /\ UNCHANGED committed
       ELSE CASE r = "ok" ->
                   /\ chan[c] = "open"
                   /\ committed' = committed \cup {c}
                   /\ cleanup' = [cleanup EXCEPT ![t].pc = "close"]
              [] r = "raises" ->
                   /\ cleanup' = [cleanup EXCEPT ![t].pc = "done"]
                   /\ UNCHANGED committed
    /\ UNCHANGED <<ctl, mode, api_key, loopQueue, startTask, chan, audioSt, exited,
                   exitStopped, txt, rly, win>>

\* After sleep(0.5): close of the captured channel.
CleanupClose(t, r) ==
    /\ ~exited
    /\ cleanup[t].pc = "close"
    /\ LET c == cleanup[t].conn IN
       CASE r = "ok" ->
              /\ chan' = [chan EXCEPT ![c] = "closed"]
              /\ cleanup' = [cleanup EXCEPT ![t].pc = "done"]
         [] r = "raises" ->
              /\ cleanup' = [cleanup EXCEPT ![t].pc = "done"]
              /\ UNCHANGED chan
    /\ UNCHANGED <<ctl, mode, api_key, loopQueue, startTask, committed, audioSt,
                   exited, exitStopped, txt, rly, win>>

\* ------------------------------------------- audio_callback, send_audio_chunks
\* audio_callback on the audio library's thread: the open feed h delivers a
\* frame, which is queued while is_recording is set.
AudioCallback(h) ==
    /\ ~exited
    /\ audioSt[h] = "open"
    /\ is_recording
    /\ Len(audio_queue) < MaxFrames
    /\ audio_queue' = Append(audio_queue, h)
    /\ UNCHANGED <<ctl, mode, api_key, loopQueue, startTask, chan, committed, audioSt,
                   cleanup, exited, exitStopped, txt, relay, sendFailure, win>>

\* send_audio_chunks ending at the first failed send.
RelaySend_FailureEndsTask(s, r) ==
    /\ ~exited
    /\ relay[s].pc = "send"
    /\ CASE r = "ok" ->
              /\ chan[relay[s].conn] = "open"
              /\ relay' = [relay EXCEPT ![s] = [NoRelay EXCEPT !.pc = "poll"]]
              /\ sendFailure' = IF sendFailure.relay = s
                                THEN [sendFailure EXCEPT !.resumed = TRUE]
                                ELSE sendFailure
         [] r = "raises" ->
              /\ relay' = [relay EXCEPT ![s] = [NoRelay EXCEPT !.pc = "exited"]]
              /\ sendFailure' = IF sendFailure.relay = None
                                THEN [sendFailure EXCEPT !.relay = s]
                                ELSE sendFailure
    /\ UNCHANGED <<ctl, mode, api_key, loopQueue, startTask, chan, committed, audioSt,
                   cleanup, exited, exitStopped, txt, audio_queue, win>>

\* The sender task of session s at the head of its loop: it ends when
\* is_recording is clear; otherwise it takes the next frame off the queue
\* and, when self.connection is set, issues the send on it and suspends.
\* With the queue empty it sleeps and comes back here.
RelayPoll(s) ==
    /\ ~exited
    /\ relay[s].pc = "poll"
    /\ IF ~is_recording
       THEN /\ relay' = [relay EXCEPT ![s].pc = "exited"]
            /\ UNCHANGED audio_queue
       ELSE /\ audio_queue # <<>>
            /\ audio_queue' = Tail(audio_queue)
            /\ relay' = IF connection # None
                        THEN [relay EXCEPT ![s].pc = "send",
                                           ![s].frame = Head(audio_queue),
                                           ![s].conn = connection]
                        ELSE relay
    /\ UNCHANGED <<ctl, mode, api_key, loopQueue, startTask, chan, committed, audioSt,
                   cleanup, exited, exitStopped, txt, sendFailure, win>>

\* The send awaited by the sender task of session s returns (r = "ok", on an
\* open channel) or raises: the except branch inside the loop sleeps and the
\* task is back at the head of its loop.
RelaySend(s, r) ==
    /\ ~exited
    /\ relay[s].pc = "send"
    /\ CASE r = "ok" ->
              /\ chan[relay[s].conn] = "open"
              /\ relay' = [relay EXCEPT ![s] = [NoRelay EXCEPT !.pc = "poll"]]
              /\ sendFailure' = IF sendFailure.relay = s
                                THEN [sendFailure EXCEPT !.resumed = TRUE]
                                ELSE sendFailure
         [] r = "raises" ->
              /\ relay' = [relay EXCEPT ![s] = [NoRelay EXCEPT !.pc = "poll"]]
              /\ sendFailure' = IF sendFailure.relay = None
                                THEN [sendFailure EXCEPT !.relay = s]
                                ELSE sendFailure
    /\ UNCHANGED <<ctl, mode, api_key, loopQueue, startTask, chan, committed, audioSt,
                   cleanup, exited, exitStopped, txt, audio_queue, win>>

\* ------------------------------------------------------ transcript handlers
\* on_partial_transcript without the append case: every change is a full
\* replace.
PartialOutput_AlwaysReplace(new_text) ==
    IF mode = "streaming"
    THEN IF new_text = last_partial_text
         THEN NoOutput
         ELSE Keys(Len(last_partial_text), new_text)
    ELSE NoOutput

\* on_partial_transcript typing a changed text without deleting the old one.
PartialOutput_NoBackspace(new_text) ==
    IF mode = "streaming"
    THEN IF new_text = last_partial_text
         THEN NoOutput
         ELSE IF StartsWith(new_text, last_partial_text)
              THEN IF DropFirst(new_text, Len(last_partial_text)) # <<>>
                   THEN Keys(0, DropFirst(new_text, Len(last_partial_text)))
                   ELSE NoOutput
              ELSE Keys(0, new_text)
    ELSE NoOutput

\* What on_partial_transcript emits for the stripped text new_text.
PartialOutput(new_text) ==
    IF mode = "streaming"
    THEN IF new_text = last_partial_text
         THEN NoOutput
         ELSE IF StartsWith(new_text, last_partial_text)
              THEN IF DropFirst(new_text, Len(last_partial_text)) # <<>>
                   THEN Keys(0, DropFirst(new_text, Len(last_partial_text)))
                   ELSE NoOutput
              ELSE Keys(Len(last_partial_text), new_text)
    ELSE NoOutput

\* The output surface after the output action o: the backspaces delete its
\* last characters, then the pasted and the typed text are inserted.
Apply(text, o) ==
    SubSeq(text, 1, IF Len(text) > o.bs THEN Len(text) - o.bs ELSE 0)
        \o o.pasted \o o.typed

\* The bookkeeping of one handler run on an event of kind k that emits o,
\* or ignores the event: surface follows the output actions of the events up
\* to the first Committed event that is not ignored, and is no longer
\* followed (it is set to the empty text) once an event is handled after
\* that one.
Observe(k, o, ignored) ==
    /\ out' = o
    /\ lastEvent' = [kind |-> k, ignored |-> ignored]
    /\ surface' = CASE seq = "partials" -> Apply(surface, o)
                    [] seq = "committed" /\ ignored -> surface
                    [] OTHER -> <<>>
    /\ seq' = CASE ignored -> seq
                [] seq = "partials" /\ k = "partial" -> "partials"
                [] seq = "partials" /\ k = "committed" -> "committed"
                [] OTHER -> "over"

\* on_partial_transcript without the return on an empty text.
OnPartialTranscript_NoEmptyGuard(raw) ==
    LET new_text == Strip(raw)
        e == "partial"
    IN  /\ Observe(e, PartialOutput(new_text), FALSE)
        /\ last_partial_text' = new_text

\* on_partial_transcript(data) with data['text'] = raw.
OnPartialTranscript(raw) ==
    LET new_text == Strip(raw)
        e == "partial"
    IN  IF new_text = <<>>
        THEN /\ Observe(e, NoOutput, TRUE)
             /\ UNCHANGED last_partial_text
        ELSE /\ Observe(e, PartialOutput(new_text), FALSE)
             /\ last_partial_text' = new_text

\* How a call of paste_text ends: the paste goes through; a clipboard call
\* raises before Cmd+V is sent and the except branch types the text; a call
\* raises after Cmd+V was sent (the restore of the old clipboard) and the
\* except branch types the text that was pasted already.
PasteOutcomes == {"ok", "raises_before_paste", "raises_after_paste"}

\* paste_text(text)
PasteText(text, p) ==
    CASE p = "ok" -> Paste(text)
      [] p = "raises_before_paste" -> Keys(0, text)
      [] p = "raises_after_paste" -> [bs |-> 0, typed |-> text, pasted |-> text]

\* on_committed_transcript typing the final text in streaming mode whatever
\* the displayed text is.
CommittedOutput_TypeOnly(final_text, p) ==
    IF mode = "streaming"
    THEN Keys(0, final_text)
    ELSE PasteText(final_text, p)

\* What on_committed_transcript emits for the stripped, non-empty final_text
\* when paste_text, if called, ends as p.
CommittedOutput(final_text, p) ==
    IF mode = "streaming"
    THEN IF last_partial_text # <<>> /\ final_text # last_partial_text
         THEN Keys(Len(last_partial_text), final_text)
         ELSE IF last_partial_text = <<>>
              THEN Keys(0, final_text)
              ELSE NoOutput
    ELSE PasteText(final_text, p)

\* on_committed_transcript without the reset of last_partial_text.
OnCommittedTranscript_NoReset(raw) ==
    LET final_text == Strip(raw)
        e == "committed"
    IN  /\ IF final_text = <<>>
           THEN Observe(e, NoOutput, TRUE)
           ELSE \E p \in PasteOutcomes :
                   /\ mode = "streaming" => p = "ok"
                   /\ Observe(e, CommittedOutput(final_text, p), FALSE)
        /\ UNCHANGED last_partial_text

\* on_committed_transcript(data) with data['text'] = raw.
OnCommittedTranscript(raw) ==
    LET final_text == Strip(raw)
        e == "committed"
    IN  IF final_text = <<>>
        THEN /\ Observe(e, NoOutput, TRUE)
             /\ UNCHANGED last_partial_text
        ELSE /\ \E p \in PasteOutcomes :
                   /\ mode = "streaming" => p = "ok"
                   /\ Observe(e, CommittedOutput(final_text, p), FALSE)
             /\ last_partial_text' = <<>>

\* Channel c, whose handlers start_recording registered on self, delivers a
\* partial transcript.
ChanPartial(c, raw) ==
    /\ ~exited
    /\ chan[c] = "open"
    /\ OnPartialTranscript(raw)
    /\ UNCHANGED <<is_recording, audio_stream, connection, session_id, mode, api_key,
                   loopQueue, startTask, chan, committed, audioSt, cleanup,
                   exited, exitStopped, rly, win>>

\* Channel c delivers the committed transcript its commit asked for
\* (CommitStrategy.MANUAL).
ChanCommitted(c, raw) ==
    /\ ~exited
    /\ chan[c] = "open"
    /\ c \in committed
    /\ OnCommittedTranscript(raw)
    /\ UNCHANGED <<is_recording, audio_stream, connection, session_id, mode, api_key,
                   loopQueue, startTask, chan, committed, audioSt, cleanup,
                   exited, exitStopped, rly, win>>

\* A partial transcript event with text raw reaches the handler.
TextPartial(raw) ==
    /\ OnPartialTranscript(raw)
    /\ UNCHANGED <<is_recording, audio_stream, connection, session_id, mode, api_key,
                   loopQueue, startTask, chan, committed, audioSt, cleanup,
                   exited, exitStopped, rly, win>>

\* A committed transcript event with text raw reaches the handler.
TextCommitted(raw) ==
    /\ OnCommittedTranscript(raw)
    /\ UNCHANGED <<is_recording, audio_stream, connection, session_id, mode, api_key,
                   loopQueue, startTask, chan, committed, audioSt, cleanup,
                   exited, exitStopped, rly, win>>

\* ---------------------------------------------------------------- exit path
\* main's KeyboardInterrupt branch: stop_recording if a session is recording,
\* app.cleanup() (audio_interface.terminate() closes the streams still open),
\* then main returns and asyncio.run cancels every task still pending: no
\* action is enabled once exited.
Exit ==
    /\ ~exited
    /\ exited' = TRUE
    /\ exitStopped' = IF is_recording THEN session_id ELSE None
    /\ IF is_recording
       THEN StopRecording
       ELSE UNCHANGED <<ctl, cleanup, win>>
    /\ audioSt' = [h \in Slots |->
                     IF audioSt[h] = "open" THEN "closed" ELSE audioSt[h]]
    /\ UNCHANGED <<mode, api_key, loopQueue, startTask, chan, committed, txt, rly>>

\* ----------------------------------------------------------- specifications
Outcomes == {"ok", "raises"}

Next ==
    \/ Press
    \/ RunStart
    \/ RunStop
    \/ \E s \in Sessions : StartConnectFail(s)
    \/ \E s \in Sessions : StartConnectedAudioOk(s)
    \/ \E s \in Sessions : StartConnectedAudioFail(s, "open")
    \/ \E s \in Sessions : StartAbortClosed(s)
    \/ \E t \in Sessions, r \in Outcomes : CleanupAudio(t, r)
    \/ \E t \in Sessions, r \in Outcomes : CleanupCommit(t, r)
    \/ \E t \in Sessions, r \in Outcomes : CleanupClose(t, r)

Spec == Init /\ [][Next]_vars

\* Spec with the two remaining failures of a start attempt and the exit path.
NextExit ==
    \/ Next
    \/ \E s \in Sessions : StartConnectedAudioFail(s, "start_stream")
    \/ \E s \in Sessions : StartAbortCloseRaises(s)
    \/ Exit

SpecExit == Init /\ [][NextExit]_vars

\* Spec started with or without the credential.
SpecConfig == InitConfig /\ [][Next]_vars

\* One more session than Spec; the connect is the only step that fails.
NextAbort ==
    \/ PressWithin(MaxSessions + 1)
    \/ RunStart
    \/ RunStop
    \/ \E s \in Slots : StartConnectFail(s)
    \/ \E s \in Slots : StartConnectedAudioOk(s)
    \/ \E t \in Slots : CleanupAudio(t, "ok")
    \/ \E t \in Slots : CleanupCommit(t, "ok")
    \/ \E t \in Slots : CleanupClose(t, "ok")

SpecAbort == Init /\ [][NextAbort]_vars

\* No step fails; the open channels deliver transcript events.
NextEvents ==
    \/ Press
    \/ RunStart
    \/ RunStop
    \/ \E s \in Sessions : StartConnectedAudioOk(s)
    \/ \E t \in Sessions : CleanupAudio(t, "ok")
    \/ \E t \in Sessions : CleanupCommit(t, "ok")
    \/ \E t \in Sessions : CleanupClose(t, "ok")
    \/ \E c \in Sessions, raw \in SessionTexts : ChanPartial(c, raw)
    \/ \E c \in Sessions, raw \in SessionTexts : ChanCommitted(c, raw)

SpecEvents == InitAnyMode /\ [][NextEvents]_vars

\* No step of start or teardown fails; the open audio feeds queue frames and
\* the sender tasks forward them, a send returning or raising.
NextRelay ==
    \/ PressWithin(MaxRelaySessions)
    \/ RunStart
    \/ RunStop
    \/ \E s \in RelaySessions : StartConnectedAudioOk(s)
    \/ \E t \in RelaySessions : CleanupAudio(t, "ok")
    \/ \E t \in RelaySessions : CleanupCommit(t, "ok")
    \/ \E t \in RelaySessions : CleanupClose(t, "ok")
    \/ \E h \in RelaySessions : AudioCallback(h)
    \/ \E s \in RelaySessions : RelayPoll(s)
    \/ \E s \in RelaySessions, r \in Outcomes : RelaySend(s, r)

SpecRelay == Init /\ [][NextRelay]_vars

\* No step fails.  The event loop runs every coroutine that is ready, every
\* connect and every wait of a teardown returns, and the user goes on
\* pressing the hotkey while a press is possible, so that every session that
\* records is stopped: a step is taken whenever one is enabled.
NextLive ==
    \/ Press
    \/ RunStart
    \/ RunStop
    \/ \E s \in Sessions : StartConnectedAudioOk(s)
    \/ \E t \in Sessions : CleanupAudio(t, "ok")
    \/ \E t \in Sessions : CleanupCommit(t, "ok")
    \/ \E t \in Sessions : CleanupClose(t, "ok")

SpecLive == Init /\ [][NextLive]_vars /\ WF_vars(NextLive)

\* SpecRelay with one more session, so that a session follows another.
NextRelayOverlap ==
    \/ PressWithin(MaxRelaySessions + 1)
    \/ RunStart
    \/ RunStop
    \/ \E s \in RelaySlots : StartConnectedAudioOk(s)
    \/ \E t \in RelaySlots : CleanupAudio(t, "ok")
    \/ \E t \in RelaySlots : CleanupCommit(t, "ok")
    \/ \E t \in RelaySlots : CleanupClose(t, "ok")
    \/ \E h \in RelaySlots : AudioCallback(h)
    \/ \E s \in RelaySlots : RelayPoll(s)
    \/ \E s \in RelaySlots, r \in Outcomes : RelaySend(s, r)

SpecRelayOverlap == Init /\ [][NextRelayOverlap]_vars

\* The handlers alone, fed every raw text.
NextText ==
    \/ \E raw \in RawTexts : TextPartial(raw)
    \/ \E raw \in RawTexts : TextCommitted(raw)

SpecText == InitAnyMode /\ [][NextText]_vars

\* ------------------------------------------------------------------ claims
\* Channel c is captured by a teardown task that has not finished.
Draining(c) ==
    \E t \in Slots : cleanup[t].conn = c /\ cleanup[t].pc \in InTeardown

\* C1: a transcript event delivered by the channel of a stopped session that
\* is still in teardown, after a newer session has started, leaves
\* last_partial_text as it is and emits no keystrokes against it.
C1_LateEventsLeaveNewSession ==
    [][\A c \in Sessions, raw \in SessionTexts :
          ((ChanPartial(c, raw) \/ ChanCommitted(c, raw))
              /\ Draining(c) /\ session_id > c)
          => /\ last_partial_text' = last_partial_text
             /\ (mode = "streaming" => out' = NoOutput)]_vars

\* The sessions that count as Recording: the start passed the guard and has
\* not failed, and no stop_recording passed its guard since.
Recording ==
    {s \in Slots :
        /\ startTask[s] \in {"connect", "done"}
        /\ \A t \in Slots : t >= s => cleanup[t].pc = "none"}

\* C2: at most one session is Recording in every reachable state.
C2_AtMostOneRecording == Cardinality(Recording) <= 1

\* C3: while the process runs, the teardown of the last stopped session is
\* unfinished and no newer session has started, is_recording is false and a scheduled
\* start_recording passes the guard; the start of a newer session that is
\* suspended in the connect can go on to open its audio feed whatever the
\* teardown's position.
C3_StartNotBlockedByTeardown ==
    \A t \in Slots :
        (cleanup[t].pc \in InTeardown /\ ~exited) =>
            /\ t = session_id => ~is_recording
            /\ (t = session_id /\ loopQueue # <<>> /\ Head(loopQueue) = "start")
                  => ENABLED (RunStart /\ startTask'[t + 1] = "connect")
            /\ \A s \in Slots :
                  (s > t /\ startTask[s] = "connect")
                     => ENABLED StartConnectedAudioOk(s)

\* A newer session has connected and opened its audio feed while the
\* teardown of session 1 is unfinished.
C3_Witness ==
    /\ cleanup[1].pc \in InTeardown
    /\ startTask[2] = "done"
    /\ audioSt[2] = "open"
    /\ chan[2] = "open"

\* The sessions started by the start_recording calls since the last
\* stop_recording call.
WinSessions == {s \in Slots : session_id - winConnects < s /\ s <= session_id}

\* The start of session s got as far as opening the audio feed.
AudioOpenAttempted(s) == startTask[s] \in {"done", "closing", "aborted"}

WinOpens == Cardinality({s \in WinSessions : AudioOpenAttempted(s)})

WinSettled == \A s \in WinSessions : startTask[s] # "connect"

OneConnectOneOpen ==
    /\ winConnects = 1
    /\ WinOpens <= 1
    /\ WinSettled => WinOpens = 1

C5_StopWhenNotRecordingIsNoOp ==
    [][(RunStop /\ ~is_recording)
        => UNCHANGED <<is_recording, audio_stream, connection,
                       last_partial_text, session_id, cleanup, chan,
                       committed, audioSt, startTask>>]_vars

\* A stop_recording call returned at its guard while the previous session
\* was in teardown.
C5_Witness ==
    /\ calls = "stop_returned"
    /\ session_id > 0
    /\ cleanup[session_id].pc \in InTeardown

\* A step of teardown task t changes only the handles t captured, which
\* were opened by sessions no newer than t.
TouchesOnlyCaptured(t) ==
    /\ cleanup'[t].audio = cleanup[t].audio
    /\ cleanup'[t].conn = cleanup[t].conn
    /\ UNCHANGED <<is_recording, audio_stream, connection>>
    /\ \A h \in Slots :
          /\ audioSt'[h] # audioSt[h] => (h = cleanup[t].audio /\ h <= t)
          /\ (chan'[h] # chan[h] \/ (h \in committed') # (h \in committed))
                => (h = cleanup[t].conn /\ h <= t)

\* C6: stop_recording on a Recording session clears is_recording,
\* audio_stream and connection and hands the two handles to a new teardown
\* task in one step; every teardown step touches only the handles its task
\* captured, never those of a newer session.
C6_StopAtomicTeardownOwnHandles ==
    [][/\ (RunStop /\ is_recording)
            => /\ ~is_recording'
               /\ audio_stream' = None
               /\ connection' = None
               /\ cleanup'[session_id] =
                     [pc |-> "audio", audio |-> audio_stream,
                      conn |-> connection]
       /\ \A t \in Slots :
             (cleanup[t].pc \in InTeardown /\ cleanup'[t].pc # cleanup[t].pc)
                => TouchesOnlyCaptured(t)]_vars

\* The teardown of session 1 has released its audio feed and sent its commit
\* while session 2 holds an open audio feed and channel.
C6_Witness ==
    /\ cleanup[1].pc = "close"
    /\ cleanup[1].audio = 1
    /\ audioSt[1] = "closed"
    /\ 1 \in committed
    /\ startTask[2] = "done"
    /\ connection = 2
    /\ audioSt[2] = "open"
    /\ chan[2] = "open"

\* C7: a finished teardown of a session that had opened its channel and its
\* audio feed has closed the audio feed and committed and closed the channel.
C7_TeardownCompletesFully ==
    \A t \in Slots :
        (cleanup[t].pc = "done" /\ cleanup[t].audio # None
                                /\ cleanup[t].conn # None)
           => /\ audioSt[cleanup[t].audio] = "closed"
              /\ cleanup[t].conn \in committed
              /\ chan[cleanup[t].conn] = "closed"

\* C8: in every teardown step, the audio feed is released before the commit
\* is sent, the commit is sent only once the captured audio feed is
\* released, and the channel is closed only once the commit was sent.
C8_TeardownOrder ==
    [][\A t \in Slots :
          LET a == cleanup[t].audio
              c == cleanup[t].conn
          IN  (cleanup[t].pc \in InTeardown /\ cleanup'[t].pc # cleanup[t].pc)
                 => /\ (a # None /\ audioSt'[a] # audioSt[a])
                          => c \notin committed
                    /\ (c # None /\ c \notin committed /\ c \in committed')
                          => (a # None => audioSt[a] = "closed")
                    /\ (c # None /\ chan[c] # "closed" /\ chan'[c] = "closed")
                          => c \in committed]_vars

\* A teardown ran all its steps: audio released, commit sent, channel closed.
C8_Witness ==
    \E t \in Sessions :
        /\ cleanup[t].pc = "done"
        /\ cleanup[t].audio # None
        /\ cleanup[t].conn # None
        /\ audioSt[cleanup[t].audio] = "closed"
        /\ cleanup[t].conn \in committed
        /\ chan[cleanup[t].conn] = "closed"

\* C9: when main has returned after stopping a Recording session, that
\* session's teardown has finished, with the audio feed closed and the
\* channel committed and closed.
C9_ExitWaitsForTeardown ==
    (exited /\ exitStopped # None)
       => LET k == cleanup[exitStopped] IN
          /\ k.pc = "done"
          /\ k.audio # None => audioSt[k.audio] = "closed"
          /\ k.conn # None => (k.conn \in committed /\ chan[k.conn] = "closed")

\* reconcile(a, b) as stated: nothing when b = a; no backspace and the
\* suffix b[len(a):] when b starts with a; otherwise len(a) backspaces and
\* all of b.
Reconcile(a, b) ==
    IF b = a THEN NoOutput
    ELSE IF StartsWith(b, a) THEN Keys(0, DropFirst(b, Len(a)))
    ELSE Keys(Len(a), b)

\* C10 as claimed: in streaming mode the edit on_partial_transcript emits for
\* a non-empty Partial text b is reconcile(last_partial_text, b).
C10_PartialEditIsReconcile ==
    [][\A b \in RawTexts :
          (TextPartial(b) /\ mode = "streaming" /\ b # <<>>)
             => out' = Reconcile(last_partial_text, b)]_vars

\* C10 amended: the edit is reconcile(last_partial_text, strip(b)), for
\* every Partial text b whose stripped form is non-empty.
C10_PartialEditIsReconcileOfStripped ==
    [][\A b \in RawTexts :
          (TextPartial(b) /\ mode = "streaming" /\ Strip(b) # <<>>)
             => out' = Reconcile(last_partial_text, Strip(b))]_vars

\* A Partial that does not extend the displayed text was handled: as many
\* backspaces as the displayed text had characters, then the new text.
C10_Witness ==
    /\ mode = "streaming"
    /\ last_partial_text = <<"b">>
    /\ out = Keys(2, <<"b">>)

\* C11 as claimed: in streaming mode, while the events handled so far are
\* Partial events, the text the edits leave on the output surface after a
\* non-empty Partial or Committed event is the text of that event, and after
\* a Partial it is last_partial_text.
C11_SurfaceIsLastEventText ==
    [][\A raw \in RawTexts :
          (mode = "streaming" /\ seq = "partials" /\ raw # <<>>)
             => /\ TextPartial(raw)
                   => (surface' = raw /\ surface' = last_partial_text')
                /\ TextCommitted(raw) => surface' = raw]_vars

\* C11 amended: the same for the events whose stripped text is non-empty,
\* with the stripped text of the event in place of its text.
C11_SurfaceIsLastEventStrippedText ==
    [][\A raw \in RawTexts :
          (mode = "streaming" /\ seq = "partials" /\ Strip(raw) # <<>>)
             => /\ TextPartial(raw)
                   => (surface' = Strip(raw) /\ surface' = last_partial_text')
                /\ TextCommitted(raw) => surface' = Strip(raw)]_vars

\* Partial events, then a Committed event that replaced a displayed text of
\* two characters by its own text.
C11_Witness ==
    /\ mode = "streaming"
    /\ seq = "committed"
    /\ lastEvent = [kind |-> "committed", ignored |-> FALSE]
    /\ out = Keys(2, <<"b">>)
    /\ surface = <<"b">>

\* C12 as claimed: in streaming mode a Committed event with non-empty text
\* emits len(last_partial_text) backspaces and types the whole committed
\* text, also when the text equals last_partial_text.
C12_CommittedAlwaysFullReplace ==
    [][\A raw \in RawTexts :
          (TextCommitted(raw) /\ mode = "streaming" /\ raw # <<>>)
             => out' = Keys(Len(last_partial_text), raw)]_vars

\* C12 amended: a Committed event whose stripped text is non-empty emits
\* nothing when that text equals last_partial_text, and otherwise
\* len(last_partial_text) backspaces and the stripped text typed.
C12_CommittedReplacesUnlessEqual ==
    [][\A raw \in RawTexts :
          (TextCommitted(raw) /\ mode = "streaming" /\ Strip(raw) # <<>>)
             => out' = IF Strip(raw) = last_partial_text
                       THEN NoOutput
                       ELSE Keys(Len(last_partial_text), Strip(raw))]_vars

\* A Committed event whose text equals the displayed text was handled and
\* emitted nothing.
C12_Witness ==
    /\ mode = "streaming"
    /\ seq = "committed"
    /\ lastEvent = [kind |-> "committed", ignored |-> FALSE]
    /\ surface = <<"a", "b">>
    /\ out = NoOutput
    /\ last_partial_text = <<>>

\* C13 as claimed: after any Committed event, in either mode,
\* last_partial_text is empty.
C13_CommittedClearsText ==
    [][\A raw \in RawTexts :
          TextCommitted(raw) => last_partial_text' = <<>>]_vars

\* C13 amended: a Committed event whose stripped text is non-empty leaves
\* last_partial_text empty; one whose stripped text is empty leaves it as it
\* was.
C13_NonEmptyCommittedClearsText ==
    [][\A raw \in RawTexts :
          TextCommitted(raw)
             => last_partial_text' = IF Strip(raw) # <<>>
                                     THEN <<>>
                                     ELSE last_partial_text]_vars

\* A Committed event replaced a displayed text of two characters and
\* cleared last_partial_text.
C13_Witness ==
    /\ lastEvent = [kind |-> "committed", ignored |-> FALSE]
    /\ out.bs = 2
    /\ surface = out.typed
    /\ last_partial_text = <<>>

\* C14: in batch mode a Partial event emits no output action, and a Committed
\* event whose stripped text is non-empty emits one clipboard paste of that
\* text and no typed keystrokes.
C14_BatchPastesOnce ==
    [][\A raw \in RawTexts :
          mode = "batch"
             => /\ TextPartial(raw) => out' = NoOutput
                /\ (TextCommitted(raw) /\ Strip(raw) # <<>>)
                      => out' = Paste(Strip(raw))]_vars

\* C15: a Partial event whose stripped text is empty emits no output action
\* and leaves last_partial_text and the output surface as they are, in both
\* modes.
C15_EmptyPartialIgnored ==
    [][\A raw \in RawTexts :
          (TextPartial(raw) /\ Strip(raw) = <<>>)
             => /\ out' = NoOutput
                /\ last_partial_text' = last_partial_text
                /\ surface' = surface]_vars

\* A whitespace-only Partial event was handled while a text was displayed.
C15_Witness ==
    /\ mode = "streaming"
    /\ lastEvent = [kind |-> "partial", ignored |-> TRUE]
    /\ last_partial_text = <<"a">>
    /\ surface = <<"a">>
    /\ out = NoOutput

\* C16: when the connect of a start attempt raises, that step opens no audio
\* feed, starts no sender task, leaves self.connection as it was and leaves
\* is_recording false; the attempt never has an audio feed, a sender task or
\* a channel, and neither self.connection nor self.audio_stream is ever its
\* handle.
C16_ConnectFailureAcquiresNothing ==
    /\ [](\A s \in Slots :
            startTask[s] = "connect_failed"
               => /\ audioSt[s] = "none"
                  /\ relay[s].pc = "none"
                  /\ chan[s] = "none"
                  /\ connection # s
                  /\ audio_stream # s)
    /\ [][\A s \in Slots :
            StartConnectFail(s)
               => /\ ~is_recording'
                  /\ UNCHANGED <<connection, audio_stream, audioSt, relay,
                                 chan>>]_vars

\* The connect of the first start attempt raised and a second attempt
\* connected and opened its audio feed.
C16_Witness ==
    /\ startTask[1] = "connect_failed"
    /\ audioSt[1] = "none"
    /\ startTask[2] = "done"
    /\ connection = 2

\* C17: when the audio feed of a start attempt fails to open or start after
\* its channel connected, the attempt ends with that channel closed and
\* is_recording false.
C17_AudioFailureClosesChannel ==
    [][\A s \in Slots :
          (startTask[s] = "closing" /\ startTask'[s] = "aborted")
             => (chan'[s] = "closed" /\ ~is_recording')]_vars

\* C18: while a failed start attempt is the last one made and no
\* stop_recording has passed its guard since, is_recording is false, so that
\* on_press schedules a start_recording.
C18_FailedStartLeavesNotRecording ==
    \A s \in Slots :
        (/\ startTask[s] \in {"connect_failed", "aborted"}
         /\ s = session_id
         /\ cleanup[s].pc = "none")
           => ~is_recording

\* C19: a send that raises leaves is_recording as it is and its sender task
\* at the head of its loop, from where, while is_recording is set and
\* self.connection is set, the task takes the next queued frame and sends
\* it.
C19_SendFailureKeepsRelaying ==
    /\ [](\A s \in Slots :
            (/\ relay[s].pc = "poll"
             /\ ~exited /\ is_recording
             /\ audio_queue # <<>>
             /\ connection # None)
               => ENABLED (RelayPoll(s) /\ relay'[s].pc = "send"))
    /\ [][\A s \in Slots :
            RelaySend(s, "raises")
               => /\ is_recording' = is_recording
                  /\ relay'[s].pc = "poll"
                  /\ UNCHANGED <<audio_stream, connection, session_id,
                                 audio_queue>>]_vars

\* The sender task of session 1 forwarded a frame after a send of it had
\* raised, the session still recording.
C19_Witness ==
    /\ sendFailure = [relay |-> 1, resumed |-> TRUE]
    /\ is_recording
    /\ session_id = 1
    /\ relay[1].pc \in {"poll", "send"}

\* C20: a teardown step that raises ends its task, leaving is_recording,
\* audio_stream, connection and session_id as they are; with a teardown
\* ended that way, a scheduled start_recording passes the guard when
\* is_recording is false and a start suspended in the connect can go on to
\* open its audio feed.
C20_TeardownErrorsAreContained ==
    /\ [](\A t \in Slots :
            (/\ cleanup[t].pc = "done"
             /\ ~exited
             /\ \/ (cleanup[t].audio # None
                       /\ audioSt[cleanup[t].audio] # "closed")
                \/ (cleanup[t].conn # None
                       /\ chan[cleanup[t].conn] # "closed"))
               => /\ (~is_recording /\ loopQueue # <<>>
                                    /\ Head(loopQueue) = "start")
                        => ENABLED (RunStart
                                      /\ startTask'[session_id + 1] = "connect")
                  /\ \A s \in Slots :
                        startTask[s] = "connect"
                           => ENABLED StartConnectedAudioOk(s))
    /\ [][\A t \in Slots :
            (\/ CleanupAudio(t, "raises")
             \/ CleanupCommit(t, "raises")
             \/ CleanupClose(t, "raises"))
               => /\ cleanup'[t].pc = "done"
                  /\ UNCHANGED <<is_recording, audio_stream, connection,
                                 session_id>>]_vars

\* The teardown of session 1 ended on an error before it closed the channel,
\* and session 2 then connected and opened its audio feed.
C20_Witness ==
    /\ cleanup[1].pc = "done"
    /\ cleanup[1].conn = 1
    /\ chan[1] = "open"
    /\ startTask[2] = "done"
    /\ chan[2] = "open"
    /\ audioSt[2] = "open"
    /\ is_recording

\* C21: two presses of which the second arrives before the coroutine the
\* first scheduled has run schedule a start and a stop, never the same
\* coroutine twice.
C21_PressesAlternate ==
    \A i \in 1..(Len(loopQueue) - 1) : loopQueue[i] # loopQueue[i + 1]

\* C22: every step leaves session_id as it is or adds 1 to it; the steps
\* that add 1 are the start_recording calls that pass the guard, each of
\* which adds 1 and takes a number no session has had.
C22_SessionIdCountsStarts ==
    [][/\ session_id' \in {session_id, session_id + 1}
       /\ session_id' # session_id => (RunStart /\ ~is_recording)
       /\ (RunStart /\ ~is_recording)
             => /\ session_id' = session_id + 1
                /\ startTask[session_id'] = "none"
                /\ \A s \in Slots :
                      startTask[s] # "none" => s < session_id']_vars

\* Two sessions have been started, numbered 1 and 2.
C22_Witness ==
    /\ session_id = 2
    /\ startTask[1] # "none"
    /\ startTask[2] # "none"
    /\ cleanup[1].pc # "none"

\* C23: a step of on_press or of audio_callback, which run on the listener's
\* and the audio library's threads, leaves is_recording, audio_stream,
\* connection, last_partial_text and session_id as they are: on_press only
\* appends a coroutine to the loop's queue, audio_callback only appends a
\* frame to audio_queue.
C23_CallbackThreadsWriteNoState ==
    [][/\ PressWithin(MaxRelaySessions)
          => /\ UNCHANGED <<is_recording, audio_stream, connection,
                            last_partial_text, session_id, audio_queue>>
             /\ Len(loopQueue') = Len(loopQueue) + 1
       /\ (\E h \in Slots : AudioCallback(h))
          => /\ UNCHANGED <<is_recording, audio_stream, connection,
                            last_partial_text, session_id, loopQueue>>
             /\ Len(audio_queue') = Len(audio_queue) + 1]_vars

\* During a recording session the audio callback has queued a frame and
\* on_press has scheduled the stop.
C23_Witness ==
    /\ is_recording
    /\ audio_stream = 1
    /\ audio_queue = <<1>>
    /\ loopQueue = <<"stop">>

\* C24: in a run without the API credential the process is over from the
\* construction of the controller on: no coroutine is ever scheduled, no
\* start_recording passes the guard, no channel is connected and no audio
\* feed is opened.
C24_NoCredentialNoSession ==
    ~api_key
       => /\ exited
          /\ loopQueue = <<>>
          /\ session_id = 0
          /\ ~is_recording
          /\ \A s \in Slots :
                /\ startTask[s] = "none"
                /\ chan[s] = "none"
                /\ audioSt[s] = "none"

\* The run without the credential, ended in the construction.
C24_Witness ==
    /\ ~api_key
    /\ exited
    /\ session_id = 0

\* C25: once a Committed event has been processed, a later Partial event
\* emits no output action.
C25_NoEditsAfterCommitted ==
    [][\A raw \in RawTexts :
          (TextPartial(raw) /\ seq \in {"committed", "over"})
             => out' = NoOutput]_vars

\* C26: every channel a start_recording call opened is eventually closed.
C26_EveryChannelEventuallyClosed ==
    \A c \in Sessions : [](chan[c] = "open" => <>(chan[c] = "closed"))

\* C27: whenever is_recording is false and no start_recording call is
\* suspended, in the connect or in the close of its abort, audio_stream and
\* connection are both None.
C27_IdleHoldsNoHandles ==
    (/\ ~is_recording
     /\ \A s \in Slots : startTask[s] \notin {"connect", "closing"})
       => (audio_stream = None /\ connection = None)

\* C28: a frame a sender task forwards to a channel was produced by the
\* audio feed of the session that opened that channel.
C28_FramesReachOwnChannel ==
    [][\A s \in Slots :
          (relay[s].pc = "send" /\ RelaySend(s, "ok"))
             => relay[s].frame = relay[s].conn]_vars

\* The sender tasks that have not ended.
RunningRelays == {s \in Slots : relay[s].pc \in {"poll", "send"}}

\* C29: at most one sender task is running in every reachable state.
C29_AtMostOneRelay == Cardinality(RunningRelays) <= 1

=============================================================================
